---- MODULE Spec2Model ----
(***************************************************************************)
(* dnscache: a concurrent reverse-DNS cache (src/dnscache.go).             *)
(*                                                                         *)
(* One CacheResolver, its queueManager goroutine, its cachePurger          *)
(* goroutine, its cacheResolver worker goroutines, and client goroutines   *)
(* calling LookupAddr and CacheStats.  The three channels are unbuffered,  *)
(* so a send and its receive are one joint step of the two goroutines.     *)
(* Start launches cr.Workers workers: worker w runs when w <= Workers.     *)
(* A critical section that contains no blocking operation is one step      *)
(* guarded by the lock being free; LookupAddr sends on requestChan inside  *)
(* its critical section, so there the lock is held across steps.           *)
(* CacheResolver.lastPurgeDuration, which only CacheStats reads back, is   *)
(* left out.                                                               *)
(***************************************************************************)
EXTENDS Integers, Sequences, FiniteSets, TLC

(* ---------------------------------------------------------------- bounds *)
Keys == {"1.1.1.1", "1.1.1.2"}
WorkerIds == {1, 2}
WorkerCounts == {1, 2}
Callers == {"c1", "c2"}
StatCallers == {"s1"}
MaxCalls == 2
MaxTime == 4

(* ------------------------------------------------------------- constants *)
TTL == 1
PurgeEvery == 1
ZeroTime == 0
StartTime == ZeroTime + TTL + 1

nonePending == 0
refreshQueued == 1
refreshInProgress == 2

NilNames == << >>
NilErr == "nil"
ErrLookupPending == "Lookup pending"
ErrNotFound == "no such host"
NoHolder == "unlocked"

\* What net.LookupAddr can answer: a name list, or a DNS error.
Outcomes ==
    { [names |-> <<"one.one.one.one.">>, err |-> NilErr],
      [names |-> NilNames, err |-> ErrNotFound] }

\* The resolver's answers for a key: 1.1.1.1 has a name, 1.1.1.2 has none.
Answers(k) ==
    {o \in Outcomes : (o.err = NilErr) = (k = "1.1.1.1")}

\* No result yet.
NoOutcome == [names |-> NilNames, err |-> "none"]

\* Workers, started      the setting and the flag of CacheResolver
\* panicked              a LookupAddr before Start has crashed the process
\* now                   the wall clock
\* cache, lock           cr.cache (key -> cacheEntry) and the holder of cr.lock
\* hits, misses          the counters
\* queue                 the queueManager's queue
\* cPc, cAddr            each client's place in LookupAddr and its addr
\* ret                   the (names, err) of the LookupAddr that returned last
\* sPc, rv               each client's place in CacheStats and rv.QueueSize
\* pPc, sleepLeft, purgeStart, cacheRefresh     the purger's place and locals
\* wPc, wAddr, wRes      each worker's place, its addr and its (names, err)
\* committed             history: the answer committed for the entry in the store
\* resolverCalls         history: resolver calls for the entry since it was
\*                       created or last committed
\* hitsSince             history: LookupAddr hits on the entry since it was
\*                       created or last committed
\* completedCalls        history: LookupAddr calls that have returned
\* pendingReturns        history: those that returned ErrLookupPending
VARIABLES
    Workers, started, panicked, now,
    cache, lock, hits, misses,
    queue,
    cPc, cAddr, ret,
    sPc, rv,
    pPc, sleepLeft, purgeStart, cacheRefresh,
    wPc, wAddr, wRes,
    committed, resolverCalls, hitsSince,
    completedCalls, pendingReturns

vars ==
    << Workers, started, panicked, now, cache, lock, hits, misses,
       queue, cPc, cAddr, ret, sPc, rv,
       pPc, sleepLeft, purgeStart, cacheRefresh,
       wPc, wAddr, wRes, committed, resolverCalls, hitsSince,
       completedCalls, pendingReturns >>

clientVars == << cPc, cAddr, ret >>
statVars == << sPc, rv >>
purgerVars == << pPc, sleepLeft, purgeStart, cacheRefresh >>
workerVars == << wPc, wAddr, wRes >>
storeVars == << cache, hits, misses >>
historyVars ==
    << committed, resolverCalls, hitsSince, completedCalls, pendingReturns >>

(* ------------------------------------------------------------ cacheEntry *)
\* A new entry that lacks the pending sentinel.
NewPendingEntryNoErr ==
    [names |-> NilNames, err |-> NilErr, status |-> refreshQueued,
     requests |-> 0, lastRefresh |-> ZeroTime]

\* &cacheEntry{status: refreshQueued, err: ErrLookupPending}
NewPendingEntry ==
    [names |-> NilNames, err |-> ErrLookupPending, status |-> refreshQueued,
     requests |-> 0, lastRefresh |-> ZeroTime]

\* &cacheEntry{}
ZeroEntry ==
    [names |-> NilNames, err |-> NilErr, status |-> nonePending,
     requests |-> 0, lastRefresh |-> ZeroTime]

CacheSize == Cardinality(DOMAIN cache)
Put(c, k, e) == [x \in DOMAIN c \cup {k} |-> IF x = k THEN e ELSE c[x]]
Delete(c, S) == [x \in DOMAIN c \ S |-> c[x]]

Running == started /\ ~panicked

(* ----------------------------------------------------------------- Init *)
Init ==
    /\ Workers \in WorkerCounts
    /\ started = FALSE
    /\ panicked = FALSE
    /\ now = StartTime
    /\ cache = << >>
    /\ lock = NoHolder
    /\ hits = 0
    /\ misses = 0
    /\ queue = << >>
    /\ cPc = [c \in Callers |-> "idle"]
    /\ cAddr = [c \in Callers |-> "none"]
    /\ ret = NoOutcome
    /\ sPc = [s \in StatCallers |-> "idle"]
    /\ rv = [s \in StatCallers |-> 0]
    /\ pPc = "sleep"
    /\ sleepLeft = PurgeEvery
    /\ purgeStart = ZeroTime
    /\ cacheRefresh = << >>
    /\ wPc = [w \in WorkerIds |-> "recv"]
    /\ wAddr = [w \in WorkerIds |-> "none"]
    /\ wRes = [w \in WorkerIds |-> NoOutcome]
    /\ committed = [k \in Keys |-> NoOutcome]
    /\ resolverCalls = [k \in Keys |-> 0]
    /\ hitsSince = [k \in Keys |-> 0]
    /\ completedCalls = 0
    /\ pendingReturns = 0

(* ---------------------------------------------------------------- Start *)
\* Start launches the queueManager, the cachePurger and the workers.
Start ==
    /\ ~started /\ ~panicked
    /\ started' = TRUE
    /\ UNCHANGED << Workers, panicked, now, storeVars, lock, queue, clientVars, statVars,
                    purgerVars, workerVars, historyVars >>

\* The wall clock; a sleeping purger's remaining sleep runs down with it.
Tick ==
    /\ Running
    /\ now < MaxTime
    /\ now' = now + 1
    /\ sleepLeft' = IF pPc = "sleep" /\ sleepLeft > 0 THEN sleepLeft - 1
                    ELSE sleepLeft
    /\ UNCHANGED << Workers, started, panicked, storeVars, lock, queue, clientVars,
                    statVars, pPc, purgeStart, cacheRefresh,
                    workerVars, historyVars >>

(* --------------------------------------------------------- queueManager *)
\* A send that the queueManager loses.
EnqueueDrop(q, k) == q

\* case newReq := <-cr.requestChan: queue = append(queue, newReq)
Enqueue(q, k) == Append(q, k)

\* A queueManager that needs the store lock to take a request.
CanAcceptUnlocked(q) == lock = NoHolder

\* The select always offers the receive from cr.requestChan.
CanAccept(q) == TRUE

\* rc is cr.resolverChan only when len(queue) > 0
CanServe(q) == Len(q) > 0

\* A queueManager that hands out the newest item.
NextItemNewest(q) == q[Len(q)]

\* nextItem = queue[0]
NextItem(q) == q[1]

\* A send to the worker that leaves the item in the queue.
DequeueKeep(q) == q

\* case rc <- nextItem: queue = queue[1:]
Dequeue(q) == SubSeq(q, 2, Len(q))

\* case cr.queueSize <- len(queue)
QueueLen(q) == Len(q)

(* ----------------------------------------------------------- LookupAddr *)
\* A lookup that retries a cached not-found answer.
NeedsCreateRetry(c, k) == k \notin DOMAIN c \/ c[k].err = ErrNotFound

\* ent == nil
NeedsCreate(c, k) == k \notin DOMAIN c

\* A classification that counts every lookup as a miss.
IsHitNever(ent) == FALSE

\* ent.status == nonePending
IsHit(ent) == ent.status = nonePending

\* return ent.names, ent.err
Result(ent) == [names |-> ent.names, err |-> ent.err]

\* LookupAddr calls begun so far.
StartedCalls ==
    hits + misses + Cardinality({c \in Callers : cPc[c] /= "idle"})

\* The counters, the return value and the deferred Unlock.
LookupReturn(c, k) ==
    /\ hits' = IF IsHit(cache[k]) THEN hits + 1 ELSE hits
    /\ misses' = IF IsHit(cache[k]) THEN misses ELSE misses + 1
    /\ hitsSince' = [hitsSince EXCEPT ![k] =
                        IF IsHit(cache[k]) THEN @ + 1 ELSE @]
    /\ ret' = Result(cache[k])
    /\ completedCalls' = completedCalls + 1
    /\ pendingReturns' = IF cache[k].err = ErrLookupPending
                          THEN pendingReturns + 1 ELSE pendingReturns
    /\ cPc' = [cPc EXCEPT ![c] = "idle"]
    /\ cAddr' = [cAddr EXCEPT ![c] = "none"]
    /\ lock' = NoHolder
    /\ UNCHANGED << cache, resolverCalls >>

\* A client calls LookupAddr(k) on the started resolver.
LookupAddrCall(c, k) ==
    /\ Running
    /\ cPc[c] = "idle"
    /\ StartedCalls < MaxCalls
    /\ cPc' = [cPc EXCEPT ![c] = "lock"]
    /\ cAddr' = [cAddr EXCEPT ![c] = k]
    /\ UNCHANGED << Workers, started, panicked, now, storeVars, lock, queue, ret, statVars,
                    purgerVars, workerVars, historyVars >>

\* Lock, read the entry; an existing entry is answered in the same critical
\* section, a missing one is created and the caller goes on to the send.
LookupAddrEnter(c) ==
    /\ cPc[c] = "lock"
    /\ lock = NoHolder
    /\ IF NeedsCreate(cache, cAddr[c])
       THEN /\ cache' = Put(cache, cAddr[c], NewPendingEntry)
            /\ lock' = c
            /\ cPc' = [cPc EXCEPT ![c] = "send"]
            /\ resolverCalls' = [resolverCalls EXCEPT ![cAddr[c]] = 0]
            /\ hitsSince' = [hitsSince EXCEPT ![cAddr[c]] = 0]
            /\ UNCHANGED << hits, misses, ret, cAddr,
                            completedCalls, pendingReturns >>
       ELSE LookupReturn(c, cAddr[c])
    /\ UNCHANGED << Workers, started, panicked, now, queue, statVars,
                    purgerVars, workerVars, committed >>

\* cr.requestChan <- addr, received by the queueManager's select.
LookupAddrSend(c) ==
    /\ cPc[c] = "send"
    /\ CanAccept(queue)
    /\ queue' = Enqueue(queue, cAddr[c])
    /\ cPc' = [cPc EXCEPT ![c] = "count"]
    /\ UNCHANGED << Workers, started, panicked, now, storeVars, lock, cAddr, ret,
                    statVars, purgerVars, workerVars, historyVars >>

LookupAddrFinish(c) ==
    /\ cPc[c] = "count"
    /\ LookupReturn(c, cAddr[c])
    /\ UNCHANGED << Workers, started, panicked, now, queue,
                    statVars, purgerVars, workerVars, committed >>

\* A LookupAddr before Start that answers like a miss on a started resolver.
LookupAddrUnstartedPending(c, k) ==
    /\ ~started /\ ~panicked
    /\ cPc[c] = "idle"
    /\ lock = NoHolder
    /\ hits + misses < MaxCalls
    /\ misses' = misses + 1
    /\ ret' = [names |-> NilNames, err |-> ErrLookupPending]
    /\ UNCHANGED << Workers, started, panicked, now, cache, hits, lock, queue,
                    cPc, cAddr, statVars, purgerVars, workerVars, historyVars >>

\* LookupAddr before Start: the write to the nil map panics.
LookupAddrPanic(c, k) ==
    /\ ~started /\ ~panicked
    /\ cPc[c] = "idle"
    /\ lock = NoHolder
    /\ panicked' = TRUE
    /\ cAddr' = [cAddr EXCEPT ![c] = k]
    /\ cPc' = [cPc EXCEPT ![c] = "panic"]
    /\ UNCHANGED << Workers, started, now, storeVars, lock, queue, ret, statVars,
                    purgerVars, workerVars, historyVars >>

(* ----------------------------------------------------------- CacheStats *)
\* The CacheStats value a call returns when it reads the counters now.
StatsResult(s) ==
    [Hits |-> hits, Misses |-> misses, QueueSize |-> rv[s],
     CacheSize |-> CacheSize]

\* rv.QueueSize = <-cr.queueSize
CacheStatsQueueSize(s) ==
    /\ Running
    /\ sPc[s] = "idle"
    /\ rv' = [rv EXCEPT ![s] = QueueLen(queue)]
    /\ sPc' = [sPc EXCEPT ![s] = "rlock"]
    /\ UNCHANGED << Workers, started, panicked, now, storeVars, lock, queue, clientVars,
                    purgerVars, workerVars, historyVars >>

\* The read of the counters under RLock, and the return of StatsResult(s).
CacheStatsRead(s) ==
    /\ sPc[s] = "rlock"
    /\ lock = NoHolder
    /\ rv' = [rv EXCEPT ![s] = 0]
    /\ sPc' = [sPc EXCEPT ![s] = "idle"]
    /\ UNCHANGED << Workers, started, panicked, now, storeVars, lock, queue, clientVars,
                    purgerVars, workerVars, historyVars >>

(* ---------------------------------------------------------- cachePurger *)
\* A sweep that does not skip entries pending a refresh.
SweepDueAnyStatus(ent, cutoff) == ent.lastRefresh < cutoff

\* cacheEntry.status == nonePending && cacheEntry.lastRefresh.Before(purgeCutoff)
SweepDue(ent, cutoff) == ent.status = nonePending /\ ent.lastRefresh < cutoff

\* A sweep that asks for a refresh of every expired entry.
WantsRefreshAlways(ent) == TRUE

\* cacheEntry.requests > 1
WantsRefresh(ent) == ent.requests > 1

\* A cutoff that leaves out the TTL.
PurgeCutoffNoTTL(start) == start

\* purgeCutoff := purgeStart.Add(-cr.TTL)
PurgeCutoff(start) == start - TTL

\* The keys the range loop appends to cacheRefresh and to cacheExpire.
RefreshSet(c, cutoff) ==
    {k \in DOMAIN c : SweepDue(c[k], cutoff) /\ WantsRefresh(c[k])}

\* An expire list that is not limited to Idle entries.
ExpireSetAnyStatus(c, cutoff) ==
    {k \in DOMAIN c : c[k].lastRefresh < cutoff /\ ~WantsRefresh(c[k])}

ExpireSet(c, cutoff) ==
    {k \in DOMAIN c : SweepDue(c[k], cutoff) /\ ~WantsRefresh(c[k])}

\* A sweep that marks the expired entries and forgets to delete them.
SweptNoDelete(c, cutoff) ==
    [k \in DOMAIN c |->
        IF k \in ExpireSet(c, cutoff)
        THEN [c[k] EXCEPT !.status = refreshQueued] ELSE c[k]]

\* The store after the sweep: the else branch marks the entry refreshQueued,
\* the second loop deletes every key of cacheExpire.
Swept(c, cutoff) ==
    Delete([k \in DOMAIN c |->
               IF k \in ExpireSet(c, cutoff)
               THEN [c[k] EXCEPT !.status = refreshQueued] ELSE c[k]],
           ExpireSet(c, cutoff))

\* Map iteration order is unspecified: any order of the keys.
Orderings(S) ==
    {q \in [1..Cardinality(S) -> S] : \A i, j \in 1..Cardinality(S) :
        i /= j => q[i] /= q[j]}

\* time.Sleep(cr.PurgeEvery) is over; purgeStart := time.Now()
PurgerWake ==
    /\ Running
    /\ pPc = "sleep"
    /\ sleepLeft = 0
    /\ purgeStart' = now
    /\ pPc' = "sweep"
    /\ UNCHANGED << Workers, started, panicked, now, storeVars, lock, queue, clientVars,
                    statVars, sleepLeft, cacheRefresh, workerVars,
                    historyVars >>

\* The critical section of the sweep.  The history of a deleted entry goes
\* with it.
PurgerSweep ==
    /\ pPc = "sweep"
    /\ lock = NoHolder
    /\ cache' = Swept(cache, PurgeCutoff(purgeStart))
    /\ cacheRefresh' \in Orderings(RefreshSet(cache, PurgeCutoff(purgeStart)))
    /\ pPc' = "send"
    /\ committed' = [k \in Keys |->
                        IF k \in DOMAIN cache' THEN committed[k] ELSE NoOutcome]
    /\ resolverCalls' = [k \in Keys |->
                            IF k \in DOMAIN cache' THEN resolverCalls[k] ELSE 0]
    /\ hitsSince' = [k \in Keys |->
                        IF k \in DOMAIN cache' THEN hitsSince[k] ELSE 0]
    /\ UNCHANGED << Workers, started, panicked, now, hits, misses,
                    lock, queue, clientVars, statVars, sleepLeft, purgeStart,
                    workerVars, completedCalls, pendingReturns >>

\* for _, addr := range cacheRefresh { cr.requestChan <- addr }
PurgerSend ==
    /\ pPc = "send"
    /\ IF cacheRefresh /= << >>
       THEN /\ CanAccept(queue)
            /\ queue' = Enqueue(queue, Head(cacheRefresh))
            /\ cacheRefresh' = Tail(cacheRefresh)
            /\ UNCHANGED pPc
       ELSE /\ pPc' = "record"
            /\ UNCHANGED << queue, cacheRefresh >>
    /\ UNCHANGED << Workers, started, panicked, now, storeVars, lock, clientVars,
                    statVars, sleepLeft, purgeStart, workerVars, historyVars >>

\* The critical section that stores lastPurgeDuration (a duration that
\* only CacheStats reads back), and back to the sleep.
PurgerRecord ==
    /\ pPc = "record"
    /\ lock = NoHolder
    /\ pPc' = "sleep"
    /\ sleepLeft' = PurgeEvery
    /\ purgeStart' = ZeroTime
    /\ UNCHANGED << Workers, started, panicked, now, cache, hits, misses, lock, queue,
                    clientVars, statVars, cacheRefresh, workerVars,
                    historyVars >>

(* -------------------------------------------------------- cacheResolver *)
\* A claim that tests for the wrong status.
CanClaimInProgress(ent) == ent.status = refreshInProgress

\* ent.status == refreshQueued
CanClaim(ent) == ent.status = refreshQueued

\* A worker that keeps the lock for the lookup.
LockKeptAfterClaim(w) == "worker"

\* defer cr.lock.Unlock() of the first critical section, run before the lookup
LockAfterClaim(w) == NoHolder

\* ent := cr.cache[addr]; if ent == nil { ent = &cacheEntry{}; ... }
Snag(c, k) == IF k \in DOMAIN c THEN c ELSE Put(c, k, ZeroEntry)

\* An update that puts the entry back to refreshQueued.
CommittedRequeued(ent, res, t) ==
    [ent EXCEPT !.names = res.names, !.err = res.err, !.lastRefresh = t,
                !.status = refreshQueued, !.requests = 0]

\* An update that leaves the entry's err as it was.
CommittedNoErr(ent, res, t) ==
    [ent EXCEPT !.names = res.names, !.lastRefresh = t,
                !.status = nonePending, !.requests = 0]

\* The entry after the worker's update.
Committed(ent, res, t) ==
    [ent EXCEPT !.names = res.names, !.err = res.err, !.lastRefresh = t,
                !.status = nonePending, !.requests = 0]

\* addr := <-cr.resolverChan
WorkerRecv(w) ==
    /\ Running
    /\ w <= Workers
    /\ wPc[w] = "recv"
    /\ CanServe(queue)
    /\ wAddr' = [wAddr EXCEPT ![w] = NextItem(queue)]
    /\ queue' = Dequeue(queue)
    /\ wPc' = [wPc EXCEPT ![w] = "claim"]
    /\ UNCHANGED << Workers, started, panicked, now, storeVars, lock, clientVars,
                    statVars, purgerVars, wRes, historyVars >>

\* The first critical section: claim the entry, or skip the lookup.  A
\* successful claim is followed at once by the call of net.LookupAddr.
WorkerClaim(w) ==
    /\ wPc[w] = "claim"
    /\ lock = NoHolder
    /\ LET k == wAddr[w]
           c1 == Snag(cache, k)
       IN IF CanClaim(c1[k])
          THEN /\ cache' = [c1 EXCEPT ![k].status = refreshInProgress]
               /\ wPc' = [wPc EXCEPT ![w] = "lookup"]
               /\ resolverCalls' = [resolverCalls EXCEPT ![k] = @ + 1]
               /\ lock' = LockAfterClaim(w)
               /\ UNCHANGED wAddr
          ELSE /\ cache' = c1
               /\ wPc' = [wPc EXCEPT ![w] = "recv"]
               /\ wAddr' = [wAddr EXCEPT ![w] = "none"]
               /\ lock' = NoHolder
               /\ UNCHANGED resolverCalls
    /\ UNCHANGED << Workers, started, panicked, now, hits, misses,
                    queue, clientVars, statVars, purgerVars, wRes,
                    committed, hitsSince, completedCalls, pendingReturns >>

\* names, err := net.LookupAddr(addr) returns.
WorkerLookup(w, o) ==
    /\ wPc[w] = "lookup"
    /\ o \in Answers(wAddr[w])
    /\ wRes' = [wRes EXCEPT ![w] = o]
    /\ wPc' = [wPc EXCEPT ![w] = "commit"]
    /\ UNCHANGED << Workers, started, panicked, now, storeVars, lock, queue, clientVars,
                    statVars, purgerVars, wAddr, historyVars >>

\* The second critical section: store the result.
WorkerCommit(w) ==
    /\ wPc[w] = "commit"
    /\ lock = NoHolder
    /\ LET k == wAddr[w]
           c1 == Snag(cache, k)
       IN /\ cache' = [c1 EXCEPT ![k] = Committed(@, wRes[w], now)]
          /\ committed' = [committed EXCEPT ![k] = wRes[w]]
          /\ resolverCalls' = [resolverCalls EXCEPT ![k] = 0]
          /\ hitsSince' = [hitsSince EXCEPT ![k] = 0]
    /\ wPc' = [wPc EXCEPT ![w] = "recv"]
    /\ wAddr' = [wAddr EXCEPT ![w] = "none"]
    /\ wRes' = [wRes EXCEPT ![w] = NoOutcome]
    /\ UNCHANGED << Workers, started, panicked, now, hits, misses,
                    lock, queue, clientVars, statVars, purgerVars,
                    completedCalls, pendingReturns >>

(* ------------------------------------------------------------------ Next *)
Next ==
    \/ Start
    \/ Tick
    \/ \E c \in Callers, k \in Keys : LookupAddrCall(c, k)
    \/ \E c \in Callers : LookupAddrEnter(c)
    \/ \E c \in Callers : LookupAddrSend(c)
    \/ \E c \in Callers : LookupAddrFinish(c)
    \/ \E c \in Callers, k \in Keys : LookupAddrPanic(c, k)
    \/ \E s \in StatCallers : CacheStatsQueueSize(s)
    \/ \E s \in StatCallers : CacheStatsRead(s)
    \/ PurgerWake
    \/ PurgerSweep
    \/ PurgerSend
    \/ PurgerRecord
    \/ \E w \in WorkerIds : WorkerRecv(w)
    \/ \E w \in WorkerIds : WorkerClaim(w)
    \/ \E w \in WorkerIds, o \in Outcomes : WorkerLookup(w, o)
    \/ \E w \in WorkerIds : WorkerCommit(w)

Spec == Init /\ [][Next]_vars

(* -------------------------------------------------------------- fairness *)
\* The Go scheduler runs every goroutine that stays runnable, sync.RWMutex
\* hands the lock to a goroutine that keeps waiting for it, and the
\* queueManager's select takes a case that stays ready.  Clients need not
\* call, the clock need not be observed, and nothing is assumed of
\* net.LookupAddr.
SchedulingFairness ==
    /\ \A c \in Callers : WF_vars(LookupAddrEnter(c))
    /\ \A c \in Callers : WF_vars(LookupAddrSend(c))
    /\ \A c \in Callers : WF_vars(LookupAddrFinish(c))
    /\ \A s \in StatCallers : WF_vars(CacheStatsRead(s))
    /\ WF_vars(PurgerSweep)
    /\ WF_vars(PurgerSend)
    /\ WF_vars(PurgerRecord)
    /\ \A w \in WorkerIds : WF_vars(WorkerRecv(w))
    /\ \A w \in WorkerIds : WF_vars(WorkerClaim(w))
    /\ \A w \in WorkerIds : WF_vars(WorkerCommit(w))

\* Every call of net.LookupAddr returns.
ResolverReturns ==
    \A w \in WorkerIds : WF_vars(\E o \in Outcomes : WorkerLookup(w, o))

\* Fair scheduling, with resolver calls that may never return.
BlockedSpec == Spec /\ SchedulingFairness

\* Fair scheduling, with resolver calls that return.
LiveSpec == Spec /\ SchedulingFairness /\ ResolverReturns

(* ---------------------------------------------------------------- steps *)
\* Caller c's LookupAddr leaves its first critical-section step, sends, and
\* returns; the purger runs the critical section of its sweep.
EnterStep(c) == cPc[c] = "lock" /\ cPc'[c] /= "lock"
SendStep(c) == cPc[c] = "send" /\ cPc'[c] = "count"
ReturnStep(c) == cPc[c] \in {"lock", "count"} /\ cPc'[c] = "idle"
SweepStep == pPc = "sweep" /\ pPc' = "send"

Pending == [names |-> NilNames, err |-> ErrLookupPending]
InStore(k) == k \in DOMAIN cache
Idle(k) == InStore(k) /\ cache[k].status = nonePending
InResolver(w, k) == wPc[w] = "lookup" /\ wAddr[w] = k

(* --------------------------------------------------------------- claims *)
\* C1: between the creation of the entry for a key and the commit of its
\* result the resolver is invoked for the key at most once, and two workers
\* are never inside a resolver call for the same key at the same time.
C1_AtMostOneResolution ==
    /\ \A k \in Keys : resolverCalls[k] <= 1
    /\ \A k \in Keys : Cardinality({w \in WorkerIds : InResolver(w, k)}) <= 1

\* A second LookupAddr of the key has returned while a worker resolves it.
C1_Witness ==
    \E k \in Keys :
        /\ \E w \in WorkerIds : InResolver(w, k)
        /\ resolverCalls[k] = 1
        /\ CacheSize = 1
        /\ misses = 2

\* C2: LookupAddr(k) on a key with no entry adds exactly one entry for k,
\* with status refreshQueued, enqueues k exactly once, and returns
\* (nil, ErrLookupPending) counted as one miss and no hit.
C2_FreshLookup ==
    [][\A c \in Callers :
        /\ (EnterStep(c) /\ ~InStore(cAddr[c])) =>
              /\ DOMAIN cache' = DOMAIN cache \cup {cAddr[c]}
              /\ CacheSize' = CacheSize + 1
              /\ \A k \in DOMAIN cache : cache'[k] = cache[k]
              /\ cache'[cAddr[c]].status = refreshQueued
              /\ cPc'[c] = "send"
              /\ queue' = queue /\ hits' = hits /\ misses' = misses
        /\ SendStep(c) =>
              /\ queue' = Append(queue, cAddr[c])
              /\ cache' = cache /\ hits' = hits /\ misses' = misses
        /\ (cPc[c] = "count" /\ cPc'[c] /= "count") =>
              /\ ret' = Pending
              /\ misses' = misses + 1 /\ hits' = hits
              /\ queue' = queue /\ cache' = cache
      ]_vars

\* A LookupAddr of a fresh key has returned the pending sentinel.
C2_Witness ==
    /\ ret = Pending
    /\ misses = 1 /\ hits = 0
    /\ CacheSize = 1
    /\ \A c \in Callers : cPc[c] = "idle"

\* C3: once a worker has committed the resolver's outcome for a key, every
\* LookupAddr of the key made while the entry stays in the store returns the
\* committed (names, err) pair and counts as a hit.
C3_CommittedIsReturned ==
    [][\A c \in Callers :
        (ReturnStep(c) /\ committed[cAddr[c]] /= NoOutcome) =>
              /\ ret' = committed[cAddr[c]]
              /\ hits' = hits + 1
              /\ misses' = misses
      ]_vars

\* A LookupAddr has returned a committed not-found answer as a hit.
C3_Witness ==
    /\ ret.err = ErrNotFound
    /\ ret.names = NilNames
    /\ hits = 1

\* C4: every LookupAddr call begun after Start returns, also when resolver
\* calls never return.
C4_LookupReturns ==
    \A c \in Callers : (cPc[c] \in {"lock", "send", "count"}) ~> (cPc[c] = "idle")

\* Every worker is inside a resolver call, a key waits in the queue, and
\* the LookupAddr calls have returned.
C4_Witness ==
    /\ Running
    /\ \A w \in WorkerIds : w <= Workers => wPc[w] = "lookup"
    /\ Len(queue) >= 1
    /\ misses = 2
    /\ \A c \in Callers : cPc[c] = "idle"

\* C5: an entry that is not Idle eventually is Idle holding the resolver's
\* answer, if resolver calls return.
C5_EventuallyResolved ==
    \A k \in Keys :
        (InStore(k) /\ ~Idle(k)) ~>
            (Idle(k) /\ Result(cache[k]) \in Answers(k)
                     /\ Result(cache[k]) = committed[k])

\* A key whose first lookup was pending holds the resolver's error.
C5_Witness ==
    \E k \in Keys :
        /\ Idle(k)
        /\ cache[k].err = ErrNotFound
        /\ misses >= 1

\* The entry of k is Idle and past the TTL at the sweep that began at
\* purgeStart.
PastTTL(k) ==
    /\ InStore(k)
    /\ cache[k].status = nonePending
    /\ cache[k].lastRefresh < purgeStart - TTL

\* C6: an entry that LookupAddr has hit since its last refresh is not
\* expunged by the sweep that finds it past its TTL.
C6_UsedEntryKept ==
    [][\A k \in Keys :
        (SweepStep /\ PastTTL(k) /\ hitsSince[k] > 0) => k \in DOMAIN cache'
      ]_vars

\* C7: a sweep deletes every Idle entry past its TTL whose use count is 0,
\* and the cache size goes down by one for each of them.
C7_UnusedExpiredDeleted ==
    [][SweepStep =>
        LET gone == {k \in Keys : PastTTL(k) /\ cache[k].requests = 0}
        IN /\ \A k \in gone : k \notin DOMAIN cache'
           /\ CacheSize' = CacheSize - Cardinality(gone)
      ]_vars

\* A sweep has emptied a store that held a resolved entry.
C7_Witness ==
    /\ pPc = "send"
    /\ CacheSize = 0
    /\ misses >= 1
    /\ \A c \in Callers : cPc[c] = "idle"
    /\ \A w \in WorkerIds : wPc[w] = "recv"

\* C8: a sweep that meets an Idle entry past its TTL that has been used at
\* least once keeps it, flips it to refreshQueued and puts its key on the
\* refresh list, leaving the cache size as it was.
C8_UsedEntryRefreshed ==
    [][\A k \in Keys :
        (SweepStep /\ PastTTL(k) /\ hitsSince[k] > 0) =>
            /\ k \in DOMAIN cache'
            /\ cache'[k].status = refreshQueued
            /\ \E i \in 1..Len(cacheRefresh') : cacheRefresh'[i] = k
            /\ CacheSize' = CacheSize
      ]_vars

\* C9: LookupAddr(k) on an Idle entry changes only the hit counters: the
\* keys of the store, the entry's names, err, status and lastRefresh, the
\* queue and the workers stay as they are.
C9_HitChangesNothing ==
    [][\A c \in Callers :
        (EnterStep(c) /\ Idle(cAddr[c])) =>
            /\ cPc'[c] = "idle"
            /\ DOMAIN cache' = DOMAIN cache
            /\ \A k \in DOMAIN cache :
                  /\ cache'[k].names = cache[k].names
                  /\ cache'[k].err = cache[k].err
                  /\ cache'[k].status = cache[k].status
                  /\ cache'[k].lastRefresh = cache[k].lastRefresh
            /\ queue' = queue
            /\ UNCHANGED << workerVars, resolverCalls, cacheRefresh >>
            /\ hits' = hits + 1 /\ misses' = misses
      ]_vars

\* A cached not-found answer has been looked up, and nothing is queued or
\* being resolved.
C9_Witness ==
    \E k \in Keys :
        /\ Idle(k)
        /\ cache[k].err = ErrNotFound
        /\ hitsSince[k] >= 1
        /\ queue = << >>
        /\ \A w \in WorkerIds : wPc[w] = "recv"

\* C10: the queue length CacheStats reports is never negative, and with
\* resolver calls that return and no further lookups the queue becomes
\* empty and stays empty.
C10_QueueDrains ==
    /\ [](QueueLen(queue) >= 0 /\ \A s \in StatCallers : rv[s] >= 0)
    /\ <>[](QueueLen(queue) = 0)

\* CacheStats holds a queue size of 0 after two queued keys were resolved.
C10_Witness ==
    /\ \A k \in Keys : Idle(k)
    /\ \E s \in StatCallers : sPc[s] = "rlock" /\ rv[s] = 0
    /\ queue = << >>
    /\ misses = 2

\* The keys that have been accepted by the queueManager and whose result is
\* not committed: the entry is not Idle and no caller is still sending it.
Outstanding ==
    {k \in DOMAIN cache :
        /\ cache[k].status /= nonePending
        /\ \A c \in Callers : ~(cPc[c] = "send" /\ cAddr[c] = k)}

\* The workers that hold a key taken from the queue.
Busy == {w \in WorkerIds : wPc[w] /= "recv"}

\* CacheStats receives the queue size.
QueueSizeStep(s) == sPc[s] = "idle" /\ sPc'[s] = "rlock"

\* C11: at most Workers keys are out of the queue and not yet committed,
\* so the queue holds at least k - Workers keys when k keys are enqueued and
\* uncommitted (before any resolver call has returned these are all the keys
\* LookupAddr has returned for), and CacheStats reports at least that many.
C11_QueueHoldsTheRest ==
    /\ [](Cardinality(Busy) <= Workers)
    /\ [](Len(queue) >= Cardinality(Outstanding) - Workers)
    /\ [][\A s \in StatCallers :
            QueueSizeStep(s) => rv'[s] >= Cardinality(Outstanding) - Workers
         ]_vars

\* One worker, two fresh keys looked up and no resolver call returned: the
\* worker is inside the resolver and CacheStats has read a queue size of 1.
C11_Witness ==
    /\ Workers = 1
    /\ Cardinality(Outstanding) = 2
    /\ misses = 2 /\ hits = 0
    /\ \A c \in Callers : cPc[c] = "idle"
    /\ \A k \in Keys : committed[k] = NoOutcome
    /\ wPc[1] = "lookup"
    /\ \E s \in StatCallers : sPc[s] = "rlock" /\ rv[s] = 1

\* Caller c's LookupAddr, begun before Start, leaves its entry point.
UnstartedStep(c) == ~started /\ cPc[c] = "idle" /\ cPc'[c] /= "idle"

\* C12: LookupAddr on a CacheResolver that was not started ends in a panic:
\* it returns nothing (no ErrLookupPending either), counts nothing and
\* stores nothing, and the crash is not absorbed: nothing runs after it.
C12_LookupBeforeStartPanics ==
    /\ [][\A c \in Callers :
            UnstartedStep(c) =>
                /\ cPc'[c] = "panic"
                /\ panicked'
                /\ ret' = ret /\ ret' /= Pending
                /\ UNCHANGED << cache, hits, misses, queue >>
         ]_vars
    /\ [](~started => /\ ret = NoOutcome
                      /\ CacheSize = 0 /\ hits = 0 /\ misses = 0
                      /\ queue = << >>)
    /\ [](panicked => ~started)
    /\ [][panicked => UNCHANGED vars]_vars

\* A LookupAddr on the unstarted resolver has panicked.
C12_Witness ==
    /\ panicked
    /\ ~started
    /\ \E c \in Callers : cPc[c] = "panic" /\ cAddr[c] \in Keys
    /\ ret = NoOutcome

\* C13: with resolver calls that return, no CacheStats call, purger cycle
\* or worker iteration that has started waits forever on the store lock or
\* on a channel of the queueManager, whatever LookupAddr callers do while
\* they hold the lock across their send: each of them is again and again
\* outside a call (idle), between two cycles (sleep), or between two
\* iterations (recv).
C13_NoDeadlock ==
    /\ \A s \in StatCallers : []<>(sPc[s] = "idle")
    /\ []<>(pPc = "sleep")
    /\ \A w \in WorkerIds : []<>(wPc[w] = "recv")

\* A LookupAddr caller holds the lock at its send while CacheStats, the
\* purger and a worker all wait for the lock.
C13_Witness ==
    /\ \E c \in Callers : cPc[c] = "send" /\ lock = c
    /\ \E s \in StatCallers : sPc[s] = "rlock"
    /\ pPc = "sweep"
    /\ \E w \in WorkerIds : wPc[w] = "claim"

\* Worker w's claim and commit critical sections on key k.
ClaimStep(w, k) == wPc[w] = "claim" /\ wAddr[w] = k /\ wPc'[w] = "lookup"
CommitStep(w, k) == wPc[w] = "commit" /\ wAddr[w] = k /\ wPc'[w] = "recv"

\* C14: an entry is created refreshQueued, and every status change of an
\* entry that stays in the store is refreshQueued -> refreshInProgress by a
\* worker's claim, refreshInProgress -> nonePending by a worker's commit, or
\* nonePending -> refreshQueued; a claim and a commit make no other change.
C14_StatusCycle ==
    [][\A k \in Keys :
        /\ (~InStore(k) /\ InStore(k)') => cache'[k].status = refreshQueued
        /\ (InStore(k) /\ InStore(k)' /\ cache'[k].status /= cache[k].status) =>
              \/ /\ cache[k].status = refreshQueued
                 /\ cache'[k].status = refreshInProgress
                 /\ \E w \in WorkerIds : ClaimStep(w, k)
              \/ /\ cache[k].status = refreshInProgress
                 /\ cache'[k].status = nonePending
                 /\ \E w \in WorkerIds : CommitStep(w, k)
              \/ /\ cache[k].status = nonePending
                 /\ cache'[k].status = refreshQueued
        /\ \A w \in WorkerIds :
              /\ ClaimStep(w, k) =>
                    /\ InStore(k) /\ cache[k].status = refreshQueued
                    /\ cache'[k].status = refreshInProgress
              /\ CommitStep(w, k) =>
                    /\ InStore(k) /\ cache[k].status = refreshInProgress
                    /\ cache'[k].status = nonePending
      ]_vars

\* One entry has gone round to Idle while the other is claimed by a worker
\* that is inside the resolver.
C14_Witness ==
    \E k1, k2 \in Keys :
        /\ Idle(k1) /\ committed[k1] /= NoOutcome
        /\ InStore(k2) /\ cache[k2].status = refreshInProgress
        /\ \E w \in WorkerIds : wPc[w] = "lookup" /\ wAddr[w] = k2

\* C15: the usage counter of an entry is the number of LookupAddr hits on
\* it since it was created or last committed: every read of the entry while
\* it is Idle adds 1 and a worker's commit resets it to 0.
C15_UseCounted ==
    \A k \in Keys : InStore(k) => cache[k].requests = hitsSince[k]

\* The purger's steps.
PurgerStep == pPc' /= pPc \/ cacheRefresh' /= cacheRefresh

\* C16: the purger neither deletes nor modifies an entry that is
\* refreshQueued or refreshInProgress, nor an Idle entry whose lastRefresh
\* is not before the cutoff (purgeStart - TTL, at most now - TTL); and an
\* entry leaves the store only in a sweep that found it Idle and past TTL.
C16_PurgerSkipsTheRest ==
    [][\A k \in Keys :
        /\ (InStore(k) /\ ~InStore(k)') => (SweepStep /\ PastTTL(k))
        /\ (PurgerStep /\ InStore(k) /\ ~PastTTL(k)) =>
              (InStore(k)' /\ cache'[k] = cache[k])
        /\ (PurgerStep /\ InStore(k)
              /\ (~Idle(k) \/ cache[k].lastRefresh >= now - TTL)) =>
              (InStore(k)' /\ cache'[k] = cache[k])
      ]_vars

\* A sweep has passed over an entry a worker is resolving and an Idle entry
\* that is not past its TTL.
C16_Witness ==
    /\ pPc = "send"
    /\ \E k1, k2 \in Keys :
          /\ InStore(k1) /\ cache[k1].status = refreshInProgress
          /\ Idle(k2) /\ cache[k2].lastRefresh >= purgeStart - TTL

\* How often key k occurs in sequence q.
Occurrences(q, k) == Cardinality({i \in 1..Len(q) : q[i] = k})

\* How often key k is on its way to a claim: in the queue, in a send that
\* the queueManager has not received yet (a LookupAddr caller's, or the
\* purger's refresh list), or with a worker that has not claimed it yet.
Enqueued(k) ==
    Occurrences(queue, k)
    + Occurrences(cacheRefresh, k)
    + Cardinality({c \in Callers : cPc[c] = "send" /\ cAddr[c] = k})
    + Cardinality({w \in WorkerIds : wPc[w] = "claim" /\ wAddr[w] = k})

\* The queueManager receives k from requestChan.
AcceptStep(k) == queue' = Append(queue, k)

\* C17: a key is at most once in the queue, in transit to it, or with a
\* worker that has not claimed it, and then its entry is in the store with
\* status refreshQueued; the queueManager never receives a key whose entry
\* is Idle or refreshInProgress.
C17_NoDuplicateInQueue ==
    /\ [](\A k \in Keys :
            /\ Enqueued(k) <= 1
            /\ Enqueued(k) = 1 =>
                  (InStore(k) /\ cache[k].status = refreshQueued))
    /\ [][\A k \in Keys :
            AcceptStep(k) =>
                /\ InStore(k) /\ cache[k].status = refreshQueued
                /\ Occurrences(queue, k) = 0
         ]_vars

\* One key is in the queue, the other is being sent by its LookupAddr.
C17_Witness ==
    /\ Len(queue) = 1
    /\ \E c \in Callers :
          /\ cPc[c] = "send"
          /\ cAddr[c] /= queue[1]
          /\ cache[cAddr[c]].status = refreshQueued
    /\ cache[queue[1]].status = refreshQueued

\* A worker receives from resolverChan.
DeliverStep(w) == wPc[w] = "recv" /\ wPc'[w] = "claim"

\* C18: the queueManager hands out keys in the order it accepted them: an
\* accepted key goes to the end of the queue, a worker receives the key at
\* the front, which is the oldest one, and the rest keeps its order; a size
\* query and every other step leave the queue as it is.
C18_FIFO ==
    [][/\ \A w \in WorkerIds :
            DeliverStep(w) =>
                /\ queue /= << >>
                /\ wAddr'[w] = Head(queue)
                /\ queue' = Tail(queue)
       /\ \A s \in StatCallers :
            QueueSizeStep(s) => (queue' = queue /\ rv'[s] = Len(queue))
       /\ \/ queue' = queue
          \/ \E k \in Keys : queue' = Append(queue, k)
          \/ \E w \in WorkerIds : DeliverStep(w) /\ queue' = Tail(queue)
      ]_vars

\* Both keys were accepted; a worker has received one of them and has not
\* claimed it yet, the other is in the queue.
C18_Witness ==
    /\ Len(queue) = 1
    /\ \E w \in WorkerIds : wPc[w] = "claim" /\ wAddr[w] /= queue[1]
    /\ \A c \in Callers : cPc[c] = "idle"
    /\ misses = 2

\* C19: a LookupAddr that returns adds 1 to exactly one of hits and misses:
\* to misses when the entry is not Idle, and it then returns
\* ErrLookupPending; to hits when the entry is Idle, and it then returns the
\* committed result; nothing else changes the counters.  So hits + misses
\* is the number of calls that have returned and misses is the number of
\* them that returned ErrLookupPending.
C19_HitsAndMisses ==
    /\ [][\A c \in Callers :
            ReturnStep(c) =>
                \/ /\ ~Idle(cAddr[c])
                   /\ ret'.err = ErrLookupPending
                   /\ misses' = misses + 1 /\ hits' = hits
                \/ /\ Idle(cAddr[c])
                   /\ ret' = committed[cAddr[c]]
                   /\ ret'.err /= ErrLookupPending
                   /\ hits' = hits + 1 /\ misses' = misses
         ]_vars
    /\ [][(\A c \in Callers : ~ReturnStep(c)) =>
            (hits' = hits /\ misses' = misses)]_vars
    /\ [](hits + misses = completedCalls)
    /\ [](misses = pendingReturns)
    /\ [](\A o \in Outcomes : o.err /= ErrLookupPending)

\* Two calls have returned: one the pending sentinel, one a cached answer.
C19_Witness ==
    /\ completedCalls = 2
    /\ pendingReturns = 1
    /\ hits = 1 /\ misses = 1
    /\ \A c \in Callers : cPc[c] = "idle"

\* Worker w runs one of its two critical sections.
WorkerLockedStep(w) ==
    \/ wPc[w] = "claim" /\ wPc'[w] /= "claim"
    \/ wPc[w] = "commit" /\ wPc'[w] /= "commit"

\* C20: when a worker runs its claim step or its commit step the entry of
\* its key is in the store, so the create-if-absent branches are not taken
\* and the step adds no key; and every Idle entry holds a committed result.
C20_WorkerFindsEntry ==
    /\ [](\A w \in WorkerIds :
            wPc[w] \in {"claim", "lookup", "commit"} => InStore(wAddr[w]))
    /\ [][\A w \in WorkerIds :
            WorkerLockedStep(w) =>
                /\ InStore(wAddr[w])
                /\ Snag(cache, wAddr[w]) = cache
                /\ DOMAIN cache' = DOMAIN cache
         ]_vars
    /\ [](\A k \in Keys :
            Idle(k) => /\ committed[k] /= NoOutcome
                       /\ Result(cache[k]) = committed[k]
                       /\ cache[k] /= ZeroEntry)

\* A sweep ran while a worker was resolving a key, and the worker, now at
\* its commit, still finds the entry.
C20_Witness ==
    /\ pPc \in {"send", "record"}
    /\ \E w \in WorkerIds :
          /\ wPc[w] = "commit"
          /\ InStore(wAddr[w])
          /\ cache[wAddr[w]].status = refreshInProgress
          /\ cache[wAddr[w]].lastRefresh < purgeStart - TTL

====
